---- MODULE Spec2Model ----
(***************************************************************************)
(* Model of simulator.cpp: a second-order direct-form-I IIR low-pass       *)
(* filter (process_filter) driven by the Arduino setup()/loop() pair.      *)
(*                                                                         *)
(* Numbers.  The program computes in float.  The model computes the same   *)
(* expressions in exact decimal fixed-point arithmetic: a sample is a      *)
(* tuple of FracLimbs + 1 limbs in base 1000, least significant first:     *)
(* the last limb is the (signed) integer part, the ones before it the      *)
(* fractional digits.  A coefficient is the integer number of millionths   *)
(* its decimal literal denotes.  FracLimbs is large enough that no product *)
(* formed within MaxCalls calls loses a digit, so every result is the      *)
(* exact real value of the expression the code evaluates; the rounding of  *)
(* the float operations themselves is not modelled, and the literal        *)
(* -0.000000 is the number 0.                                              *)
(*                                                                         *)
(* Input.  loop() feeds sin(2 * PI * test_freq * t); the model feeds any   *)
(* of InputSamples, so t only counts the ticks.  The locals x, y, i,       *)
(* input_signal and output_signal hold 0 until their first assignment.     *)
(*                                                                         *)
(* Spec is the program: setup() once, then loop() repeatedly, with         *)
(* process_filter taken one loop iteration at a time.  SpecLin steps three *)
(* evaluators (histories of their own, the same coefficients) by whole     *)
(* process_filter calls, for the linearity property.                       *)
(***************************************************************************)
EXTENDS Integers, Sequences, FiniteSets, TLC

(* ------------------------------ bounds -------------------------------- *)

\* number of loop() ticks (process_filter calls) explored
MaxCalls == 4

\* number of steps of the three evaluators of SpecLin (at most MaxCalls)
MaxLinCalls == 4

\* largest scalar of a linear combination in SpecLin
MaxScalar == 2

\* magnitude of the input samples, in thousandths: sin() returns values in [-1, 1]
MaxInput == 1000

(* ------------------------- program constants -------------------------- *)

FILTER_ORDER == 2

\* base of one fixed-point limb, and the limbs one coefficient multiplication
\* shifts by (a coefficient is in millionths = Base^2)
Base == 1000
CoeffLimbs == 2

\* fractional limbs kept: one for an input sample, CoeffLimbs more per call
FracLimbs == 1 + CoeffLimbs * (MaxCalls + 1)

Idx == 0..FILTER_ORDER

\* limb positions: NumLimbs is the integer part, NumLimbs - j the j-th
\* fractional limb (weight Base^-j)
NumLimbs == FracLimbs + 1
Limbs == 1..NumLimbs

(* ------------------------ fixed-point arithmetic ---------------------- *)

RECURSIVE Carry(_, _, _)
\* limbs j..NumLimbs of w with the carry c added at limb j and propagated
\* upward: the fractional limbs end up in 0..Base-1, the integer part takes
\* what is left
Carry(w, j, c) ==
  LET v == w[j] + c
  IN  IF j = NumLimbs THEN <<v>> ELSE <<v % Base>> \o Carry(w, j + 1, v \div Base)

Norm(w) == Carry(w, 1, 0)

\* the integer k
FromInt(k) == Norm([j \in Limbs |-> IF j = NumLimbs THEN k ELSE 0])

\* k thousandths
FromMilli(k) == Norm([j \in Limbs |-> IF j = NumLimbs - 1 THEN k ELSE 0])

\* m millionths
FromMicro(m) == Norm([j \in Limbs |-> IF j = NumLimbs - 2 THEN m ELSE 0])

\* m units of 10^-12
FromPico(m) == Norm([j \in Limbs |-> IF j = NumLimbs - 4 THEN m ELSE 0])

Zero == FromInt(0)

Add(u, v) == Norm([j \in Limbs |-> u[j] + v[j]])

Sub(u, v) == Norm([j \in Limbs |-> u[j] - v[j]])

\* u times the integer k
Scale(k, u) == Norm([j \in Limbs |-> k * u[j]])

\* coefficient c (in millionths) times sample u, the float product c * u
Mul(c, u) ==
  Norm([j \in Limbs |-> IF j + CoeffLimbs <= NumLimbs THEN c * u[j + CoeffLimbs] ELSE 0])

\* u >= 0: the fractional limbs are non-negative after Norm, so the sign is
\* that of the integer part
NonNeg(u) == u[NumLimbs] >= 0

\* |u - v| <= eps
Within(u, v, eps) == NonNeg(Add(Sub(u, v), eps)) /\ NonNeg(Add(Sub(v, u), eps))

(* ------------------------------ state --------------------------------- *)

VARIABLES
  B_COEFFS,       \* float B_COEFFS[]: feedforward coefficients, millionths
  A_COEFFS,       \* float A_COEFFS[]: feedback coefficients, millionths
  x_hist,         \* float x_hist[FILTER_ORDER + 1]
  y_hist,         \* float y_hist[FILTER_ORDER + 1]
  t,              \* float t, counted in steps of dt
  pc,             \* position of the program
  x,              \* process_filter: parameter x
  y,              \* process_filter: local y
  i,              \* process_filter: loop variable i
  input_signal,   \* loop: local input_signal
  output_signal,  \* loop: local output_signal
  ins,            \* history: the samples passed to process_filter so far
  outs,           \* history: the values process_filter returned so far
  x_pre,          \* history: x_hist at the entry of the current call
  y_pre,          \* history: y_hist at the entry of the current call
  run1,           \* SpecLin: an evaluator fed X1
  run2,           \* SpecLin: an evaluator fed X2
  run3,           \* SpecLin: an evaluator fed ka * X1 + kb * X2
  ka,             \* SpecLin: the scalar a
  kb              \* SpecLin: the scalar b

vars == <<B_COEFFS, A_COEFFS, x_hist, y_hist, t, pc, x, y, i,
          input_signal, output_signal, ins, outs, x_pre, y_pre,
          run1, run2, run3, ka, kb>>

coeffs == <<B_COEFFS, A_COEFFS>>
hists == <<x_hist, y_hist>>
locals == <<x, y, i>>
trace == <<ins, outs, x_pre, y_pre>>
program == <<coeffs, hists, t, pc, locals, input_signal, output_signal, trace>>
lin == <<run1, run2, run3, ka, kb>>

\* a C array with the initialiser list lit: indices 0 .. length - 1
Array(lit) == [k \in 0..(Len(lit) - 1) |-> lit[k + 1]]

\* B_COEFFS[] = { 0.000000, 0.020198, -0.000000 }
B_INIT == Array(<<0, 20198, 0>>)

\* A_COEFFS[] = { 1.000000, -1.788622, 0.808858 }
A_INIT == Array(<<1000000, -1788622, 808858>>)

\* float hist[FILTER_ORDER + 1] = {0}
HIST_INIT == [k \in 0..((FILTER_ORDER + 1) - 1) |-> Zero]

\* the values sin(2 * PI * test_freq * t) may return, in thousandths
InputSamples == {-MaxInput, -(MaxInput \div 2), 0, MaxInput \div 2, MaxInput}

\* an evaluator with zero history that has processed nothing
FreshRun == [x_hist |-> HIST_INIT, y_hist |-> HIST_INIT, ins |-> <<>>, outs |-> <<>>]

InitProgram ==
  /\ B_COEFFS = B_INIT
  /\ A_COEFFS = A_INIT
  /\ x_hist = HIST_INIT
  /\ y_hist = HIST_INIT
  /\ t = 0
  /\ pc = "setup"
  /\ x = Zero
  /\ y = Zero
  /\ i = 0
  /\ input_signal = Zero
  /\ output_signal = Zero
  /\ ins = <<>>
  /\ outs = <<>>
  /\ x_pre = HIST_INIT
  /\ y_pre = HIST_INIT

Init ==
  /\ InitProgram
  /\ run1 = FreshRun /\ run2 = FreshRun /\ run3 = FreshRun
  /\ ka = 0 /\ kb = 0

(* ----------------------- process_filter, by parts ---------------------- *)

\* line 26: for (int i = FILTER_ORDER; i > 0; i--)
\* variant: the loop starts one slot short and never writes the oldest one
ShiftStart_m == FILTER_ORDER - 1
ShiftStart == FILTER_ORDER
ShiftCond(k) == k > 0
ShiftNext(k) == k - 1

\* lines 27-28: hist[i] = hist[i - 1]
\* variant: the copy runs the wrong way, hist[i - 1] = hist[i]
ShiftBody_m(h, k) == [h EXCEPT ![k - 1] = h[k]]
ShiftBody(h, k) == [h EXCEPT ![k] = h[k - 1]]

\* line 31: x_hist[0] = x
StoreNewest(h, v) == [h EXCEPT ![0] = v]

\* line 33: float y = 0.0
\* variant: y starts from a value other than 0
YInit_m == FromMicro(1)
YInit == Zero

\* line 35: for (int i = 0; i <= FILTER_ORDER; i++)
FFStart == 0
\* variant: the loop runs one index past the arrays
FFCond_m(k) == k <= FILTER_ORDER + 1
FFCond(k) == k <= FILTER_ORDER

\* line 36: y += B_COEFFS[i] * x_hist[i]
FFBody(acc, B, xh, k) == Add(acc, Mul(B[k], xh[k]))

\* line 39: for (int i = 1; i <= FILTER_ORDER; i++)
\* variant: the feedback loop starts where the feedforward loop does, at 0,
\* and so uses A[0] * y_hist[0]
FBStart_m == FFStart
FBStart == 1
FBCond(k) == k <= FILTER_ORDER

\* line 40: y -= A_COEFFS[i] * y_hist[i]
\* variant: the feedback term is added, y += A_COEFFS[i] * y_hist[i]
FBBody_m(acc, A, yh, k) == Add(acc, Mul(A[k], yh[k]))
FBBody(acc, A, yh, k) == Sub(acc, Mul(A[k], yh[k]))

(* ------------------- process_filter, as one function ------------------- *)

RECURSIVE ShiftLoop(_, _)
\* lines 26-29: the shift loop from i = k on
ShiftLoop(h, k) ==
  IF ShiftCond(k) THEN ShiftLoop(ShiftBody(h, k), ShiftNext(k)) ELSE h

RECURSIVE FFLoop(_, _, _, _)
\* lines 35-37: the feedforward loop from i = k on
FFLoop(acc, B, xh, k) ==
  IF FFCond(k) THEN FFLoop(FFBody(acc, B, xh, k), B, xh, k + 1) ELSE acc

RECURSIVE FBLoop(_, _, _, _)
\* lines 39-41: the feedback loop from i = k on
FBLoop(acc, A, yh, k) ==
  IF FBCond(k) THEN FBLoop(FBBody(acc, A, yh, k), A, yh, k + 1) ELSE acc

\* lines 33-41: the output, from the histories as they are after line 31
Output(B, A, xh, yh) == FBLoop(FFLoop(YInit, B, xh, FFStart), A, yh, FBStart)

\* lines 25-45: the histories after the call and the value returned
process_filter(B, A, xh, yh, v) ==
  LET xs == StoreNewest(ShiftLoop(xh, ShiftStart), v)
      ys == ShiftLoop(yh, ShiftStart)
      out == Output(B, A, xs, ys)
  IN  [x_hist |-> xs, y_hist |-> StoreNewest(ys, out), y |-> out]

(* ------------------------------ actions ------------------------------- *)

\* setup(): opens the serial port, waits, prints the banner
Setup ==
  /\ pc = "setup"
  /\ pc' = "loop"
  /\ UNCHANGED <<lin, coeffs, hists, t, locals, input_signal, output_signal, trace>>

\* loop(), lines 54-55: sample the test signal and call process_filter
LoopSample ==
  /\ pc = "loop"
  /\ Len(ins) < MaxCalls
  /\ \E s \in InputSamples :
       /\ input_signal' = FromMilli(s)
       /\ x' = FromMilli(s)
       /\ ins' = Append(ins, FromMilli(s))
  /\ x_pre' = x_hist
  /\ y_pre' = y_hist
  /\ i' = ShiftStart
  /\ pc' = "shift"
  /\ UNCHANGED <<lin, coeffs, hists, t, y, output_signal, outs>>

\* process_filter, lines 26-29: one iteration of the shift loop
ShiftStep ==
  /\ pc = "shift"
  /\ ShiftCond(i)
  /\ x_hist' = ShiftBody(x_hist, i)
  /\ y_hist' = ShiftBody(y_hist, i)
  /\ i' = ShiftNext(i)
  /\ UNCHANGED <<lin, coeffs, t, pc, x, y, input_signal, output_signal, trace>>

\* process_filter, lines 31-35: leave the shift loop, store x, clear y
StoreX ==
  /\ pc = "shift"
  /\ ~ShiftCond(i)
  /\ x_hist' = StoreNewest(x_hist, x)
  /\ y' = YInit
  /\ i' = FFStart
  /\ pc' = "feedforward"
  /\ UNCHANGED <<lin, coeffs, y_hist, t, x, input_signal, output_signal, trace>>

\* process_filter, lines 35-37: one iteration of the feedforward loop
FeedforwardStep ==
  /\ pc = "feedforward"
  /\ FFCond(i)
  /\ y' = FFBody(y, B_COEFFS, x_hist, i)
  /\ i' = i + 1
  /\ UNCHANGED <<lin, coeffs, hists, t, pc, x, input_signal, output_signal, trace>>

\* process_filter, lines 37-39: leave the feedforward loop, enter the feedback loop
FeedforwardExit ==
  /\ pc = "feedforward"
  /\ ~FFCond(i)
  /\ i' = FBStart
  /\ pc' = "feedback"
  /\ UNCHANGED <<lin, coeffs, hists, t, x, y, input_signal, output_signal, trace>>

\* process_filter, lines 39-41: one iteration of the feedback loop
FeedbackStep ==
  /\ pc = "feedback"
  /\ FBCond(i)
  /\ y' = FBBody(y, A_COEFFS, y_hist, i)
  /\ i' = i + 1
  /\ UNCHANGED <<lin, coeffs, hists, t, pc, x, input_signal, output_signal, trace>>

\* variant: line 43 writes through the wrong array, A_COEFFS[0] = y
\* (y cut to millionths)
StoreY_m ==
  /\ pc = "feedback"
  /\ ~FBCond(i)
  /\ A_COEFFS' = StoreNewest(A_COEFFS, (y[NumLimbs] * Base + y[NumLimbs - 1]) * Base + y[NumLimbs - 2])
  /\ output_signal' = y
  /\ outs' = Append(outs, y)
  /\ pc' = "print"
  /\ UNCHANGED <<lin, B_COEFFS, hists, t, locals, input_signal, ins, x_pre, y_pre>>

\* process_filter, lines 43-44, and the assignment of line 55:
\* store y, return it to loop()
StoreY ==
  /\ pc = "feedback"
  /\ ~FBCond(i)
  /\ y_hist' = StoreNewest(y_hist, y)
  /\ output_signal' = y
  /\ outs' = Append(outs, y)
  /\ pc' = "print"
  /\ UNCHANGED <<lin, coeffs, x_hist, t, locals, input_signal, ins, x_pre, y_pre>>

\* loop(), lines 57-64: print the pair, advance t by dt, delay
LoopTail ==
  /\ pc = "print"
  /\ t' = t + 1
  /\ pc' = "loop"
  /\ UNCHANGED <<lin, coeffs, hists, locals, input_signal, output_signal, trace>>

Next ==
  \/ Setup
  \/ LoopSample
  \/ ShiftStep
  \/ StoreX
  \/ FeedforwardStep
  \/ FeedforwardExit
  \/ FeedbackStep
  \/ StoreY
  \/ LoopTail

Spec == Init /\ [][Next]_vars

(* ------------- three evaluators stepped together (linearity) ----------- *)

\* the samples fed to run1 and run2, in thousandths, and the scalars
LinSamples == {-(MaxInput \div 2), MaxInput}
Scalars == {-1, 0, MaxScalar}

\* one process_filter call on the evaluator r with the sample u
RunStep(r, u) ==
  LET q == process_filter(B_COEFFS, A_COEFFS, r.x_hist, r.y_hist, u)
  IN  [x_hist |-> q.x_hist, y_hist |-> q.y_hist,
       ins |-> Append(r.ins, u), outs |-> Append(r.outs, q.y)]

InitLin ==
  /\ InitProgram
  /\ run1 = FreshRun /\ run2 = FreshRun /\ run3 = FreshRun
  /\ ka \in Scalars /\ kb \in Scalars

\* feed X1[n] to run1, X2[n] to run2 and ka * X1[n] + kb * X2[n] to run3
LinStep ==
  /\ Len(run1.ins) < MaxLinCalls
  /\ \E s1 \in LinSamples, s2 \in LinSamples :
       /\ run1' = RunStep(run1, FromMilli(s1))
       /\ run2' = RunStep(run2, FromMilli(s2))
       /\ run3' = RunStep(run3, Add(Scale(ka, FromMilli(s1)), Scale(kb, FromMilli(s2))))
  /\ UNCHANGED <<program, ka, kb>>

NextLin == LinStep

SpecLin == InitLin /\ [][NextLin]_vars

(* ------------------- reference operators for the claims ---------------- *)

RECURSIVE SumFF(_, _, _)
\* sum of B[k] * xh[k] for k in lo..FILTER_ORDER
SumFF(B, xh, lo) ==
  IF lo > FILTER_ORDER THEN Zero ELSE Add(Mul(B[lo], xh[lo]), SumFF(B, xh, lo + 1))

RECURSIVE SumFB(_, _, _)
\* sum of A[k] * yh[k] for k in lo..FILTER_ORDER
SumFB(A, yh, lo) ==
  IF lo > FILTER_ORDER THEN Zero ELSE Add(Mul(A[lo], yh[lo]), SumFB(A, yh, lo + 1))

\* the recurrence of the specification
RefOutput(B, A, xh, yh) == Sub(SumFF(B, xh, 0), SumFB(A, yh, 1))

One == FromInt(1)

\* the input history is a prefix of the unit impulse 1, 0, 0, ...
ImpulseRun == \A k \in 1..Len(ins) : ins[k] = (IF k = 1 THEN One ELSE Zero)

\* every input so far was 0
ZeroRun == \A k \in 1..Len(ins) : ins[k] = Zero

\* contents tried for y_hist[0], and values tried for A[1] (in millionths)
SlotValues == {Zero, One, FromMilli(-MaxInput), FromMicro(20198)}
A1Values == {A_INIT[1], 0, 2 * A_INIT[0]}

\* the program is inside process_filter
InFilter == pc \in {"shift", "feedforward", "feedback"}

\* the program is inside process_filter, past the shift loop and line 31
Computing == pc \in {"feedforward", "feedback"}

\* the steps of one call, taken together, are process_filter
CallAgrees ==
  pc = "print" =>
    LET r == process_filter(B_COEFFS, A_COEFFS, x_pre, y_pre, x)
    IN  x_hist = r.x_hist /\ y_hist = r.y_hist /\ output_signal = r.y

\* the configuration the recurrence assumes: B and A have order + 1 entries
\* and A[0] is 1.0.  The program never checks it; it holds because the
\* initialisers satisfy it and nothing writes the arrays.
ValidConfiguration ==
  /\ DOMAIN B_COEFFS = Idx
  /\ DOMAIN A_COEFFS = Idx
  /\ A_COEFFS[0] = Base * Base

\* no digit has been lost: the limbs a further coefficient multiplication
\* shifts out are still zero in every sample the program holds
ExactArithmetic ==
  \A j \in 1..CoeffLimbs :
    /\ y[j] = 0 /\ x[j] = 0
    /\ \A k \in Idx : x_hist[k][j] = 0 /\ y_hist[k][j] = 0
    /\ \A k \in Idx : run3.x_hist[k][j] = 0 /\ run3.y_hist[k][j] = 0
    /\ \A k \in Idx : run1.y_hist[k][j] = 0 /\ run2.y_hist[k][j] = 0

(* ------------------------------- claims -------------------------------- *)

\* C1: when process_filter returns, the value returned is
\* sum(k in 0..order) B[k] * x_hist[k] - sum(k in 1..order) A[k] * y_hist[k]
\* over the histories as shifted and with x stored at x_hist[0]; A[0] is no
\* factor of it.
C1_OutputIsRecurrence ==
  pc = "print" =>
    /\ output_signal = RefOutput(B_COEFFS, A_COEFFS, x_hist, y_hist)
    /\ y_hist[0] = output_signal

C1_Witness ==
  /\ pc = "print"
  /\ output_signal # Zero
  /\ y_hist[1] # Zero
  /\ y_hist[2] # Zero
  /\ x_hist[1] # Zero

\* C2: within a call the histories are shifted first, then x is stored at
\* x_hist[0], then the output is computed while y_hist[0] still holds the
\* previous output, and only at the end is the output stored at y_hist[0].
C2_StepOrder ==
  /\ (Computing \/ pc = "print") =>
       /\ \A k \in 1..FILTER_ORDER : x_hist[k] = x_pre[k - 1] /\ y_hist[k] = y_pre[k - 1]
       /\ x_hist[0] = x
  /\ Computing => y_hist[0] = y_pre[0]
  /\ pc = "print" => y_hist[0] = output_signal /\ output_signal = outs[Len(outs)]

C2_Witness ==
  /\ pc = "print"
  /\ x_pre[0] # Zero /\ x_pre[1] # Zero /\ x_pre[0] # x_pre[1]
  /\ y_pre[0] # Zero /\ y_pre[1] # Zero
  /\ x # x_pre[0]
  /\ output_signal # y_pre[0]

\* C3 as stated: the impulse response starts 0, 0.020198, 0.036129 (each
\* within 1e-6).
C3_ImpulseAsStated ==
  (ImpulseRun /\ Len(outs) >= 3) =>
    /\ outs[1] = Zero
    /\ Within(outs[2], FromMicro(20198), FromMicro(1))
    /\ Within(outs[3], FromMicro(36129), FromMicro(1))

\* C3, amended: the impulse response starts 0, 0.020198, 0.036127 (each
\* within 1e-6); the third value is exactly 0.036126587156.
C3_Impulse ==
  /\ (ImpulseRun /\ Len(outs) >= 1) => outs[1] = Zero
  /\ (ImpulseRun /\ Len(outs) >= 2) =>
       /\ outs[2] = FromMicro(20198)
       /\ Within(outs[2], FromMicro(20198), FromMicro(1))
  /\ (ImpulseRun /\ Len(outs) >= 3) =>
       /\ outs[3] = Add(FromMicro(36126), FromPico(587156))
       /\ Within(outs[3], FromMicro(36127), FromMicro(1))

C3_Witness == ImpulseRun /\ Len(outs) = 3 /\ pc = "print"

\* C4: as long as every input has been 0, every output is 0 and both
\* histories are all zero, in every state of the run.
C4_ZeroRun ==
  ZeroRun =>
    /\ \A k \in 1..Len(outs) : outs[k] = Zero
    /\ \A k \in Idx : x_hist[k] = Zero /\ y_hist[k] = Zero
    /\ InFilter => x = Zero
    /\ (Computing \/ pc = "print") => y = Zero

C4_Witness == ZeroRun /\ Len(outs) >= 2 /\ pc = "print"

\* C5: linearity.  With run1 fed X1, run2 fed X2 and run3 fed
\* ka * X1 + kb * X2, all from zero history, every output of run3 is
\* ka * (the output of run1) + kb * (the output of run2) at the same step.
C5_Linearity ==
  /\ Len(run1.outs) = Len(run3.outs) /\ Len(run2.outs) = Len(run3.outs)
  /\ \A k \in 1..Len(run3.outs) :
       /\ run3.ins[k] = Add(Scale(ka, run1.ins[k]), Scale(kb, run2.ins[k]))
       /\ run3.outs[k] = Add(Scale(ka, run1.outs[k]), Scale(kb, run2.outs[k]))

C5_Witness ==
  /\ Len(run3.outs) = MaxLinCalls
  /\ ka \notin {0, 1} /\ kb \notin {0, 1}
  /\ run1.outs[MaxLinCalls] # Zero
  /\ run2.outs[MaxLinCalls] # Zero
  /\ run1.outs[MaxLinCalls] # run2.outs[MaxLinCalls]
  /\ run3.outs[MaxLinCalls] # Zero
  /\ run1.y_hist[FILTER_ORDER] # Zero

\* C7: the output does not depend on y_hist[0].  When the computation of the
\* output starts, y_hist[0] still holds the previous output (a duplicate of
\* y_hist[1]), and the output the code computes from that state is the same
\* for every other content of y_hist[0], whatever A[1] is; the value returned
\* is the one computed with any content of y_hist[0].
C7_SelfExclusion ==
  /\ (pc = "feedforward" /\ i = FFStart) =>
       /\ y_hist[0] = y_hist[1]
       /\ \A v \in SlotValues : \A a1 \in A1Values :
            Output(B_COEFFS, [A_COEFFS EXCEPT ![1] = a1], x_hist, [y_hist EXCEPT ![0] = v])
              = Output(B_COEFFS, [A_COEFFS EXCEPT ![1] = a1], x_hist, y_hist)
  /\ pc = "print" =>
       \A v \in SlotValues :
         output_signal = Output(B_COEFFS, A_COEFFS, x_hist, [y_hist EXCEPT ![0] = v])

C7_Witness ==
  /\ pc = "feedforward" /\ i = FFStart
  /\ y_hist[0] # Zero
  /\ y_hist[2] # Zero
  /\ Output(B_COEFFS, A_COEFFS, x_hist, y_hist) # Zero

\* C8: the coefficient arrays hold their initial values in every reachable
\* state, and no step of process_filter changes B_COEFFS, A_COEFFS or t.
C8_Frame ==
  /\ [](B_COEFFS = B_INIT /\ A_COEFFS = A_INIT)
  /\ [][InFilter => UNCHANGED <<B_COEFFS, A_COEFFS, t>>]_vars

C8_Witness ==
  /\ pc = "print"
  /\ t >= 1
  /\ x_hist # HIST_INIT
  /\ y_hist # HIST_INIT

\* C9: both histories and both coefficient arrays have exactly the indices
\* 0..order, and every loop iteration of process_filter uses indices in
\* 0..order only.
C9_Lengths ==
  /\ DOMAIN x_hist = Idx /\ DOMAIN y_hist = Idx
  /\ DOMAIN B_COEFFS = Idx /\ DOMAIN A_COEFFS = Idx
  /\ Cardinality(DOMAIN x_hist) = FILTER_ORDER + 1
  /\ (pc = "shift" /\ ShiftCond(i)) => i \in Idx /\ (i - 1) \in Idx
  /\ (pc = "feedforward" /\ FFCond(i)) => i \in Idx
  /\ (pc = "feedback" /\ FBCond(i)) => i \in Idx

C9_Witness == Len(outs) >= 2 /\ pc = "feedback" /\ FBCond(i) /\ i = FILTER_ORDER

\* C10: between calls, after n calls, x_hist[k] is the input of call n - k
\* and y_hist[k] the output of call n - k, and 0 where n - k < 1.
C10_SlidingWindow ==
  pc \in {"setup", "loop", "print"} =>
    /\ Len(ins) = Len(outs)
    /\ \A k \in Idx :
         /\ x_hist[k] = (IF Len(ins) - k >= 1 THEN ins[Len(ins) - k] ELSE Zero)
         /\ y_hist[k] = (IF Len(outs) - k >= 1 THEN outs[Len(outs) - k] ELSE Zero)

C10_Witness ==
  /\ pc = "print"
  /\ Len(ins) >= FILTER_ORDER + 1
  /\ ins[Len(ins) - FILTER_ORDER] # Zero
  /\ outs[Len(outs) - FILTER_ORDER] # Zero
  /\ ins[Len(ins)] # ins[Len(ins) - FILTER_ORDER]

====
